---- MODULE Spec2Model ----
(***************************************************************************)
(* Model of click's `exec` command (src/command/exec.rs): the Exec command *)
(* handler, which resolves the tty/stdin flags and walks the current       *)
(* selection, and do_exec, which builds and launches the kubectl           *)
(* invocation either in the foreground (Command::status, blocking) or in a *)
(* new terminal (duct start, detached).                                    *)
(*                                                                         *)
(* Strings that the code inspects character by character (the terminal     *)
(* launcher, which is split on whitespace, and the kubectl binary path,    *)
(* whose first character is tested) are sequences of one-character         *)
(* strings; Str turns them into the string handed to the process.          *)
(* Option<T> is a sequence of length at most one.                          *)
(***************************************************************************)
EXTENDS Integers, Sequences, FiniteSets, TLC

VARIABLES
    matches,      \* the parsed command line (clap ArgMatches)
    env,          \* Env: context, click_config, impersonation
    selection,    \* the objects of the current selection, in order
    pc,           \* position of the handler
    idx,          \* index of the next object of the selection
    tty,          \* resolved tty flag
    stdin,        \* resolved stdin flag
    it_arg,       \* Option<&str>: the attach token
    invocations,  \* every process launch attempted, in order
    results,      \* results[i]: what the callback returned for object i
    output        \* lines written to the ClickWriter

vars == <<matches, env, selection, pc, idx, tty, stdin, it_arg,
          invocations, results, output>>

----------------------------------------------------------------------------
(* Bounds *)

MaxTargets == 2

----------------------------------------------------------------------------
(* Option, strings *)

None == <<>>
Some(v) == <<v>>
IsSome(o) == o # None
Unwrap(o) == o[1]

RECURSIVE Str(_)
Str(chars) == IF chars = <<>> THEN "" ELSE Head(chars) \o Str(Tail(chars))

IsWhitespace(c) == c \in {" ", "\t", "\n"}

\* str::split_whitespace().collect(): the maximal runs of non-whitespace
\* characters, in order; no empty tokens.
RECURSIVE SplitFrom(_, _, _)
SplitFrom(chars, cur, acc) ==
    IF chars = <<>>
    THEN IF cur = "" THEN acc ELSE Append(acc, cur)
    ELSE IF IsWhitespace(Head(chars))
         THEN SplitFrom(Tail(chars), "", IF cur = "" THEN acc ELSE Append(acc, cur))
         ELSE SplitFrom(Tail(chars), cur \o Head(chars), acc)

split_whitespace(chars) == SplitFrom(chars, "", <<>>)

\* variant: any '/' in the path counts
contains_slash(chars) == \E i \in DOMAIN chars : chars[i] = "/"

\* str::starts_with('/')
starts_with_slash(chars) == Len(chars) > 0 /\ chars[1] = "/"

----------------------------------------------------------------------------
(* Errors *)

OkResult == [kind |-> "Ok", msg |-> ""]
CommandError(m) == [kind |-> "CommandError", msg |-> m]
IoError(e) == [kind |-> "Io", msg |-> e]

\* The io::ErrorKind of a failed launch ("Ok" when the process started).
LaunchResults == {"Ok", "NotFound", "PermissionDenied"}

----------------------------------------------------------------------------
(* Inputs: the command line, the environment, the selection *)

Chars_kubectl == <<"k", "u", "b", "e", "c", "t", "l">>
Chars_xterm_e == <<"x", "t", "e", "r", "m", " ", "-", "e">>

\* -T/--tty and -i/--stdin: takes_value, min_values(0), bool value parser.
\* present: the flag was on the command line; value: the value given, if any.
BoolFlags ==
    { [present |-> FALSE, value |-> None],
      [present |-> TRUE,  value |-> None],
      [present |-> TRUE,  value |-> Some(TRUE)],
      [present |-> TRUE,  value |-> Some(FALSE)] }

\* -t/--terminal: takes_value, min_values(0).
TerminalFlags ==
    { [present |-> FALSE, value |-> None],
      [present |-> TRUE,  value |-> None],
      [present |-> TRUE,  value |-> Some(<<>>)],
      [present |-> TRUE,  value |-> Some(<<" ", "s", "t", " ", "\t", "-", "e">>)] }

\* click_config.terminal ('set terminal <value>')
ConfigTerminals == { None, Some(<<" ">>), Some(<<"k", "t">>) }

Containers == { None, Some("app") }
ImpersonateUsers == { None, Some("admin") }
KubectlBinaries == { None, Some(<<"/", "k">>), Some(<<"b", "/", "k">>) }
Contexts == { None, Some("prod") }

\* the required trailing command: at least one token
Commands == { <<"ls">>, <<"ls", "--", "-l">> }

\* KObj: two pods and an object of another kind
Objects ==
    { [kind |-> "Pod",        name |-> "web-0", namespace |-> Some("default")],
      [kind |-> "Pod",        name |-> "db-1",  namespace |-> Some("data")],
      [kind |-> "Deployment", name |-> "api",   namespace |-> Some("default")] }

\* a selection lists distinct objects
Selections ==
    UNION { { s \in [1..n -> Objects] : \A i, j \in 1..n : s[i] = s[j] => i = j }
            : n \in 1..MaxTargets }

\* variant: every selected object is taken for a pod
is_pod_any(obj) == obj.kind \in {"Pod", "Deployment"}

is_pod(obj) == obj.kind = "Pod"

----------------------------------------------------------------------------
(* clap ArgMatches *)

contains_id(flag) == flag.present
get_one(flag) == flag.value

\* `!matches.contains_id(f) || *matches.get_one::<bool>(f).unwrap()`:
\* unwrap panics when the flag is present and carries no value.
FlagPanics(flag) == contains_id(flag) /\ ~IsSome(get_one(flag))
FlagValue(flag) == IF ~contains_id(flag) THEN TRUE ELSE Unwrap(get_one(flag))

\* variant: the tty-only and stdin-only tokens are exchanged
ItArgSwapped(t, s) ==
    CASE t /\ s   -> Some("-it")
      [] t /\ ~s  -> Some("-i")
      [] ~t /\ s  -> Some("-t")
      [] OTHER    -> None

ItArg(t, s) ==
    CASE t /\ s   -> Some("-it")
      [] t /\ ~s  -> Some("-t")
      [] ~t /\ s  -> Some("-i")
      [] OTHER    -> None

----------------------------------------------------------------------------
(* do_exec: the argument sequences *)

kubectl_binary(e) ==
    IF IsSome(e.kubectl_binary) THEN Unwrap(e.kubectl_binary) ELSE Chars_kubectl

\* variant: the configured terminal wins over the per-call one
ResolveTerminalConfigFirst(term_opt, e) ==
    IF IsSome(e.terminal) THEN Unwrap(e.terminal)
    ELSE IF IsSome(term_opt) THEN Unwrap(term_opt)
    ELSE Chars_xterm_e

ResolveTerminal(term_opt, e) ==
    IF IsSome(term_opt) THEN Unwrap(term_opt)
    ELSE IF IsSome(e.terminal) THEN Unwrap(e.terminal)
    ELSE Chars_xterm_e

Push(args, o) == IF IsSome(o) THEN Append(args, Unwrap(o)) ELSE args
PushFlag(args, flag, o) == IF IsSome(o) THEN args \o <<flag, Unwrap(o)>> ELSE args

\* targs of the do_terminal branch
TerminalArgs(e, pod, kluster_name, cmd, it, cont_opt, term_opt) ==
    LET ns == Unwrap(pod.namespace)
        t0 == split_whitespace(ResolveTerminal(term_opt, e))
        t1 == t0 \o <<Str(kubectl_binary(e)), "--namespace", ns,
                      "--context", kluster_name, "exec">>
        t2 == Push(t1, it)
        t3 == Append(t2, pod.name)
        t4 == PushFlag(t3, "-c", cont_opt)
        t5 == PushFlag(t4, "--as", e.impersonate_user)
        t6 == Append(t5, "--")
    IN  t6 \o cmd

\* variant: the container flag is pushed before the impersonation flag, as
\* in the terminal branch
ForegroundArgsContainerFirst(e, pod, kluster_name, cmd, it, cont_opt) ==
    LET ns == Unwrap(pod.namespace)
        c1 == <<"--namespace", ns, "--context", kluster_name, "exec">>
        c2 == Push(c1, it)
        c3 == Append(c2, pod.name)
        c4 == PushFlag(c3, "-c", cont_opt)
        c5 == PushFlag(c4, "--as", e.impersonate_user)
    IN  Append(c5, "--") \o cmd

\* the arguments given to Command::new(kubectl_binary) in the other branch
ForegroundArgs(e, pod, kluster_name, cmd, it, cont_opt) ==
    LET ns == Unwrap(pod.namespace)
        c1 == <<"--namespace", ns, "--context", kluster_name, "exec">>
        c2 == Push(c1, it)
        c3 == Append(c2, pod.name)
        c4 == PushFlag(c3, "--as", e.impersonate_user)
    IN  IF IsSome(cont_opt)
        THEN (c4 \o <<"-c", Unwrap(cont_opt), "--">>) \o cmd
        ELSE Append(c4, "--") \o cmd

\* match command.status(): Ok(s) / Err(e)
ForegroundOutcome(e, launch, success) ==
    IF launch = "Ok"
    THEN IF success THEN OkResult ELSE CommandError("kubectl exited abnormally")
    ELSE IF launch = "NotFound"
         THEN IF starts_with_slash(kubectl_binary(e))
              THEN CommandError("Could not find kubectl binary: '"
                                \o Str(kubectl_binary(e)) \o "'. Does it exist?")
              ELSE CommandError("Could not find kubectl binary: '"
                                \o Str(kubectl_binary(e)) \o "'. Is it in your PATH?")
         ELSE IoError(launch)

\* impl From<io::Error> for ClickError, used by `?`
FromIoError(err) == IoError(err)

\* variant: a failed start is classified as the foreground branch does
TerminalOutcomeClassified(launch) ==
    IF launch = "Ok" THEN OkResult ELSE ForegroundOutcome(env, launch, FALSE)

\* `duct::cmd(..).start()?; Ok(())`
TerminalOutcome(launch) ==
    IF launch = "Ok" THEN OkResult ELSE FromIoError(launch)

----------------------------------------------------------------------------
(* State machine *)

Init ==
    /\ matches \in [tty : BoolFlags, stdin : BoolFlags, terminal : TerminalFlags,
                    container : Containers, command : Commands]
    /\ env \in [context : Contexts, kubectl_binary : KubectlBinaries,
                terminal : ConfigTerminals, impersonate_user : ImpersonateUsers]
    /\ selection \in Selections
    /\ pc = "start"
    /\ idx = 1
    /\ tty = TRUE
    /\ stdin = TRUE
    /\ it_arg = None
    /\ invocations = <<>>
    /\ results = <<>>
    /\ output = <<>>

\* env.context is None: the handler returns
\* Err(CommandError("Need an active context in order to exec.")) before
\* looking at the flags.
NoContext ==
    /\ pc = "start"
    /\ ~IsSome(env.context)
    /\ pc' = "no_context"
    /\ UNCHANGED <<matches, env, selection, idx, tty, stdin, it_arg,
                   invocations, results, output>>

\* One of the two unwraps of the flag resolution panics.
FlagPanic ==
    /\ pc = "start"
    /\ IsSome(env.context)
    /\ ~(~FlagPanics(matches.tty) /\ ~FlagPanics(matches.stdin))
    /\ pc' = "panicked"
    /\ UNCHANGED <<matches, env, selection, idx, tty, stdin, it_arg,
                   invocations, results, output>>

\* tty, stdin and it_arg are computed; apply_to_selection is entered.
ResolveFlags ==
    /\ pc = "start"
    /\ IsSome(env.context)
    /\ ~FlagPanics(matches.tty)
    /\ ~FlagPanics(matches.stdin)
    /\ tty' = FlagValue(matches.tty)
    /\ stdin' = FlagValue(matches.stdin)
    /\ it_arg' = ItArg(FlagValue(matches.tty), FlagValue(matches.stdin))
    /\ pc' = "select"
    /\ UNCHANGED <<matches, env, selection, idx, invocations, results, output>>

\* apply_to_selection: the callback returned res for object idx.  The driver
\* goes on to the next object; after an error it may also stop.
Returned(res) ==
    /\ results' = Append(results, res)
    /\ idx' = idx + 1
    /\ \E goOn \in (IF res.kind = "Ok" THEN {TRUE} ELSE BOOLEAN) :
          pc' = IF goOn /\ idx < Len(selection) THEN "select" ELSE "done"

\* the callback's else branch
NotAPod ==
    /\ pc = "select"
    /\ ~is_pod(selection[idx])
    /\ Returned(CommandError("Exec only possible on pods"))
    /\ UNCHANGED <<matches, env, selection, tty, stdin, it_arg, invocations, output>>

\* do_exec, do_terminal: the line is written, the process is started and
\* do_exec returns at once.
TerminalStart(launch) ==
    /\ pc = "select"
    /\ is_pod(selection[idx])
    /\ contains_id(matches.terminal)
    /\ LET pod == selection[idx]
           targs == TerminalArgs(env, pod, Unwrap(env.context), matches.command,
                                 it_arg, matches.container, get_one(matches.terminal))
       IN  /\ output' = Append(output, "Starting on " \o pod.name \o " in terminal")
           /\ invocations' = Append(invocations,
                  [target |-> idx, mode |-> "terminal",
                   program |-> targs[1], args |-> Tail(targs), launch |-> launch,
                   state |-> IF launch = "Ok" THEN "running" ELSE "failed"])
    /\ Returned(TerminalOutcome(launch))
    /\ UNCHANGED <<matches, env, selection, tty, stdin, it_arg>>

\* variant: the exit status of a terminal process is collected and reported
TerminalProcessExitReported(i, success) ==
    /\ i \in DOMAIN invocations
    /\ invocations[i].mode = "terminal"
    /\ invocations[i].state = "running"
    /\ invocations' = [invocations EXCEPT ![i].state =
                          IF success THEN "exit0" ELSE "exit1"]
    /\ results' = [results EXCEPT ![invocations[i].target] =
                      IF success THEN @ ELSE CommandError("kubectl exited abnormally")]
    /\ UNCHANGED <<matches, env, selection, pc, idx, tty, stdin, it_arg, output>>

\* A process started in a terminal exits, whenever it does.
TerminalProcessExit(i, success) ==
    /\ i \in DOMAIN invocations
    /\ invocations[i].mode = "terminal"
    /\ invocations[i].state = "running"
    /\ invocations' = [invocations EXCEPT ![i].state =
                          IF success THEN "exit0" ELSE "exit1"]
    /\ UNCHANGED <<matches, env, selection, pc, idx, tty, stdin, it_arg,
                   results, output>>

\* variant: the process is spawned and not waited for
ForegroundStartNoWait(launch) ==
    /\ pc = "select"
    /\ is_pod(selection[idx])
    /\ ~contains_id(matches.terminal)
    /\ LET pod == selection[idx]
       IN  invocations' = Append(invocations,
               [target |-> idx, mode |-> "foreground",
                program |-> Str(kubectl_binary(env)),
                args |-> ForegroundArgs(env, pod, Unwrap(env.context),
                                        matches.command, it_arg, matches.container),
                launch |-> launch,
                state |-> IF launch = "Ok" THEN "running" ELSE "failed"])
    /\ Returned(ForegroundOutcome(env, launch, TRUE))
    /\ UNCHANGED <<matches, env, selection, tty, stdin, it_arg, output>>

\* do_exec, foreground: command.status() launches the process; when the
\* launch fails do_exec returns the error, otherwise it blocks.
ForegroundStart(launch) ==
    /\ pc = "select"
    /\ is_pod(selection[idx])
    /\ ~contains_id(matches.terminal)
    /\ LET pod == selection[idx]
       IN  invocations' = Append(invocations,
               [target |-> idx, mode |-> "foreground",
                program |-> Str(kubectl_binary(env)),
                args |-> ForegroundArgs(env, pod, Unwrap(env.context),
                                        matches.command, it_arg, matches.container),
                launch |-> launch,
                state |-> IF launch = "Ok" THEN "running" ELSE "failed"])
    /\ IF launch = "Ok"
       THEN pc' = "waiting" /\ UNCHANGED <<idx, results>>
       ELSE Returned(ForegroundOutcome(env, launch, FALSE))
    /\ UNCHANGED <<matches, env, selection, tty, stdin, it_arg, output>>

\* command.status() returns: the process has exited.
ForegroundExit(success) ==
    /\ pc = "waiting"
    /\ invocations' = [invocations EXCEPT ![Len(invocations)].state =
                          IF success THEN "exit0" ELSE "exit1"]
    /\ Returned(ForegroundOutcome(env, "Ok", success))
    /\ UNCHANGED <<matches, env, selection, tty, stdin, it_arg, output>>

Next ==
    \/ NoContext
    \/ FlagPanic
    \/ ResolveFlags
    \/ NotAPod
    \/ \E launch \in LaunchResults : TerminalStart(launch)
    \/ \E i \in 1..MaxTargets, success \in BOOLEAN : TerminalProcessExit(i, success)
    \/ \E launch \in LaunchResults : ForegroundStart(launch)
    \/ \E success \in BOOLEAN : ForegroundExit(success)

Spec == Init /\ [][Next]_vars

----------------------------------------------------------------------------
(* Properties *)

ForegroundInvocations == { i \in DOMAIN invocations : invocations[i].mode = "foreground" }
TerminalInvocations == { i \in DOMAIN invocations : invocations[i].mode = "terminal" }

OptFlag(flag, o) == IF o = <<>> THEN <<>> ELSE <<flag, o[1]>>
BinaryName == IF env.kubectl_binary = <<>> THEN "kubectl" ELSE Str(env.kubectl_binary[1])

\* C1: in foreground mode the arguments given to the external binary are
\* exactly --namespace <ns> --context <cluster> exec [<attach-token>]
\* <pod-name> [--as <identity>] [-c <container>] -- <command tokens>; the
\* element right before the first command token is `--` and the command
\* tokens are the tail of the sequence, in their order.
C1_ForegroundArguments ==
    \A i \in ForegroundInvocations :
        LET inv == invocations[i]
            pod == selection[inv.target]
            cmd == matches.command
            n   == Len(inv.args)
        IN  /\ inv.program = BinaryName
            /\ inv.args = <<"--namespace", pod.namespace[1], "--context", env.context[1], "exec">>
                          \o it_arg \o <<pod.name>>
                          \o OptFlag("--as", env.impersonate_user)
                          \o OptFlag("-c", matches.container)
                          \o <<"--">> \o cmd
            /\ n > Len(cmd)
            /\ inv.args[n - Len(cmd)] = "--"
            /\ SubSeq(inv.args, n - Len(cmd) + 1, n) = cmd

\* A foreground run with attach token, impersonation, container and a
\* command that itself holds `--` has exited with success.
C1_Witness ==
    /\ pc = "done"
    /\ ForegroundInvocations # {}
    /\ it_arg = <<"-it">>
    /\ env.impersonate_user # <<>>
    /\ matches.container # <<>>
    /\ matches.command = <<"ls", "--", "-l">>
    /\ invocations[1].state = "exit0"
    /\ results[1] = OkResult

\* C2: in terminal mode the launcher is the per-call override if given,
\* else the configured terminal, else "xterm -e"; the invocation is the
\* whitespace-split launcher tokens, the binary name, then --namespace <ns>
\* --context <cluster> exec [<attach-token>] <pod-name> [-c <container>]
\* [--as <identity>] -- <command tokens>.
C2_TerminalArguments ==
    \A i \in TerminalInvocations :
        LET inv == invocations[i]
            pod == selection[inv.target]
            launcher == IF matches.terminal.value # <<>> THEN matches.terminal.value[1]
                        ELSE IF env.terminal # <<>> THEN env.terminal[1]
                        ELSE <<"x", "t", "e", "r", "m", " ", "-", "e">>
            full == <<inv.program>> \o inv.args
            rest == <<BinaryName, "--namespace", pod.namespace[1],
                      "--context", env.context[1], "exec">>
                    \o it_arg \o <<pod.name>>
                    \o OptFlag("-c", matches.container)
                    \o OptFlag("--as", env.impersonate_user)
                    \o <<"--">> \o matches.command
        IN  /\ full = split_whitespace(launcher) \o rest
            /\ (matches.terminal.value = <<>> /\ env.terminal = <<>>)
                   => SubSeq(full, 1, 3) = <<"xterm", "-e", BinaryName>>
            /\ (matches.terminal.value = <<<<" ", "s", "t", " ", "\t", "-", "e">>>>)
                   => SubSeq(full, 1, 3) = <<"st", "-e", BinaryName>>

\* A terminal launch with a per-call launcher given while a terminal is
\* configured too, with container and impersonation.
C2_Witness ==
    /\ TerminalInvocations # {}
    /\ matches.terminal.value = <<<<" ", "s", "t", " ", "\t", "-", "e">>>>
    /\ env.terminal = <<<<"k", "t">>>>
    /\ matches.container # <<>>
    /\ env.impersonate_user # <<>>
    /\ invocations[1].program = "st"

\* C3: an object that is not a pod gets the error "Exec only possible on
\* pods" and no process is launched for it, in either mode; the number of
\* launches is at most the number of pods processed.
C3_NonPodRejected ==
    /\ \A t \in DOMAIN results :
          selection[t].kind # "Pod" =>
              /\ results[t] = CommandError("Exec only possible on pods")
              /\ \A i \in DOMAIN invocations : invocations[i].target # t
    /\ \A i \in DOMAIN invocations : selection[invocations[i].target].kind = "Pod"
    /\ Len(invocations) <=
          Cardinality({ t \in 1..Len(selection) :
                          /\ selection[t].kind = "Pod"
                          /\ t <= Len(results) + (IF pc = "waiting" THEN 1 ELSE 0) })

\* A pod was launched in a terminal and then an object of another kind was
\* rejected.
C3_Witness ==
    /\ Len(results) = 2
    /\ selection[1].kind = "Pod"
    /\ selection[2].kind # "Pod"
    /\ matches.terminal.present
    /\ Len(invocations) = 1
    /\ results[2].msg = "Exec only possible on pods"

\* C4: the foreground outcome is decided by the launch result alone:
\* exit with success -> Ok; exit with failure -> CommandError "kubectl
\* exited abnormally"; NotFound -> CommandError ending "Does it exist?"
\* when the configured binary starts with '/', "Is it in your PATH?"
\* otherwise; any other launch error -> Io carrying it.
C4_ForegroundOutcome ==
    \A i \in ForegroundInvocations :
        LET inv == invocations[i]
            absolute == env.kubectl_binary # <<>> /\ Head(env.kubectl_binary[1]) = "/"
            expected ==
                CASE inv.state = "exit0" -> [kind |-> "Ok", msg |-> ""]
                  [] inv.state = "exit1" ->
                        [kind |-> "CommandError", msg |-> "kubectl exited abnormally"]
                  [] inv.state = "failed" /\ inv.launch = "NotFound" ->
                        [kind |-> "CommandError",
                         msg |-> "Could not find kubectl binary: '" \o BinaryName \o
                                 (IF absolute THEN "'. Does it exist?"
                                              ELSE "'. Is it in your PATH?")]
                  [] inv.state = "failed" /\ inv.launch # "NotFound" ->
                        [kind |-> "Io", msg |-> inv.launch]
        IN  IF inv.state = "running"
            THEN Len(results) = inv.target - 1
            ELSE Len(results) >= inv.target /\ results[inv.target] = expected

\* The binary path holds a '/' without starting with one, and was not found.
C4_Witness ==
    /\ ForegroundInvocations # {}
    /\ env.kubectl_binary = <<<<"b", "/", "k">>>>
    /\ invocations[1].launch = "NotFound"
    /\ results[1].msg = "Could not find kubectl binary: 'b/k'. Is it in your PATH?"

ThreeValued(flag) ==
    IF ~flag.present THEN TRUE
    ELSE IF flag.value = <<>> THEN TRUE
    ELSE flag.value[1]

\* C6: each of tty and stdin resolves as absent -> true, present without a
\* value -> true, present with value v -> v, and for every combination the
\* command goes on to dispatch: it never aborts while resolving the flags.
C6_FlagResolution ==
    (pc \notin {"start", "no_context"}) =>
        /\ pc # "panicked"
        /\ tty = ThreeValued(matches.tty)
        /\ stdin = ThreeValued(matches.stdin)

AttachToken ==
    IF tty /\ stdin THEN <<"-it">>
    ELSE IF tty THEN <<"-t">>
    ELSE IF stdin THEN <<"-i">>
    ELSE <<>>

\* C7: (true,true) -> "-it", (true,false) -> "-t", (false,true) -> "-i",
\* (false,false) -> no token; the one token is used for every target and
\* sits right after `exec` and before the pod name in both modes, and
\* nothing is put there when there is no token.
C7_AttachToken ==
    (pc \in {"select", "waiting", "done"}) =>
        /\ it_arg = AttachToken
        /\ Len(it_arg) <= 1
        /\ \A i \in DOMAIN invocations :
              LET inv == invocations[i]
                  full == <<inv.program>> \o inv.args
                  \* `exec` is the fifth argument of the binary
                  p == IF inv.mode = "foreground" THEN 6
                       ELSE 6 + Len(split_whitespace(
                                ResolveTerminal(get_one(matches.terminal), env)))
              IN  /\ full[p] = "exec"
                  /\ full[p - 5] = BinaryName
                  /\ SubSeq(full, p + 1, p + 1 + Len(AttachToken))
                          = AttachToken \o <<selection[inv.target].name>>

\* Two targets were run with tty on and stdin off.
C7_Witness ==
    /\ Len(invocations) = 2
    /\ invocations[1].target # invocations[2].target
    /\ matches.tty.present /\ matches.tty.value = <<TRUE>>
    /\ matches.stdin.value = <<FALSE>>
    /\ it_arg = <<"-t">>

RunningForeground ==
    { i \in ForegroundInvocations : invocations[i].state = "running" }

\* C8: targets are dispatched one at a time in selection order; a
\* foreground process is launched only after the previous target's process
\* has exited and its outcome was returned; at most one foreground process
\* runs at any moment and each is waited for before do_exec returns.
C8_OneAtATime ==
    /\ Cardinality(RunningForeground) <= 1
    /\ \A i, j \in DOMAIN invocations :
          i < j => invocations[i].target < invocations[j].target
    /\ \A i \in ForegroundInvocations :
          LET inv == invocations[i]
          IN  /\ inv.state = "running" =>
                    (pc = "waiting" /\ i = Len(invocations)
                     /\ Len(results) = inv.target - 1)
              /\ Len(results) >= inv.target => inv.state # "running"
    /\ pc = "done" => RunningForeground = {}

\* The second target's process runs after the first one has exited.
C8_Witness ==
    /\ pc = "waiting"
    /\ Len(invocations) = 2
    /\ invocations[1].mode = "foreground"
    /\ invocations[1].state = "exit1"
    /\ invocations[2].state = "running"
    /\ Len(results) = 1

StartingLine(name) == "Starting on " \o name \o " in terminal"

\* C9: in terminal mode a successful launch returns Ok without waiting,
\* whatever the process does later; the dispatcher goes on while earlier
\* terminal processes run; one line "Starting on <pod name> in terminal"
\* is written per launch, and none in foreground mode.
C9_TerminalFireAndForget ==
    /\ \A i \in TerminalInvocations :
          LET inv == invocations[i]
          IN  /\ pc # "waiting"
              /\ Len(results) >= inv.target
              /\ inv.launch = "Ok" => results[inv.target] = [kind |-> "Ok", msg |-> ""]
    /\ \A o \in Objects :
          Cardinality({ k \in DOMAIN output : output[k] = StartingLine(o.name) })
              = Cardinality({ i \in TerminalInvocations :
                                selection[invocations[i].target] = o })
    /\ Len(output) = Cardinality(TerminalInvocations)
    /\ ~matches.terminal.present => output = <<>>

\* The second terminal was started while the first process was running,
\* and has since exited with failure.
C9_Witness ==
    /\ Len(invocations) = 2
    /\ invocations[1].mode = "terminal"
    /\ invocations[1].state = "running"
    /\ invocations[2].state = "exit1"
    /\ results = <<OkResult, OkResult>>
    /\ output = <<StartingLine(selection[1].name), StartingLine(selection[2].name)>>

\* C10: in terminal mode the resolved launcher always gives at least one
\* token, also when it is empty or only whitespace, so the program launched
\* is a launcher token and never the external binary.
C10_LauncherToken ==
    \A i \in TerminalInvocations :
        LET tokens == split_whitespace(
                          ResolveTerminal(get_one(matches.terminal), env))
        IN  /\ Len(tokens) >= 1
            /\ invocations[i].program = tokens[1]

====
